---------------------------- MODULE Spec2Model ----------------------------
(***************************************************************************)
(* A model of npm-package-check (src/main.ts): the start-up checks, the    *)
(* organization listing, the concurrent per-package size fetches, the      *)
(* progress bar, the sort and the CSV / console report, together with the  *)
(* pure function formatBytes.                                              *)
(*                                                                         *)
(* Numbers.  TLC's integers are 32 bits wide while formatBytes is defined  *)
(* on byte counts up to 1024^5 = 2^50, so a byte count handed to           *)
(* formatBytes is a little-endian sequence of base-1024 digits ("limbs");  *)
(* the pipeline's rawSize values are small and stay plain integers.        *)
(***************************************************************************)
EXTENDS Integers, Sequences, FiniteSets, TLC

VARIABLES
    argv,        \* process.argv[2]: "" when the argument is missing
    npmrc,       \* what reading ~/.npmrc yields (see NpmrcStates)
    pc,          \* position of the program (see PcValues)
    exitCode,    \* <<>> while running, then <<the process exit code>>
    requests,    \* number of registry requests issued so far
    listing,     \* <<the registry's answer to the listing request>>, <<>> before
    packages,    \* main: const packages (listing order)
    launched,    \* number of packages.map callbacks run so far
    calls,       \* per package name: getPackageSize calls started
    response,    \* per package name: <<the registry's answer>>, <<>> before
    outcome,     \* per package name: <<how getPackageSize settled>>, <<>> before
    settled,     \* package names in the order their getPackageSize settled
    ticked,      \* number of .finally callbacks that have run
    bar,         \* the progress bar: [state, total, value]
    stderr,      \* set of diagnostic lines written with console.error
    packageSizes,\* main: const packageSizes (filtered, then sorted in place)
    csv,         \* <<content of package-sizes.csv>>, <<>> if not written
    table,       \* <<rows handed to console.table>>, <<>> if not printed
    fmtIn,       \* formatBytes harness: the byte count (limbs)
    fmtOut       \* formatBytes harness: <<the returned string>>, <<>> before

vars == <<argv, npmrc, pc, exitCode, requests, listing, packages, launched,
          calls, response, outcome, settled, ticked, bar, stderr,
          packageSizes, csv, table, fmtIn, fmtOut>>

pipelineVars == <<argv, npmrc, pc, exitCode, requests, listing, packages,
                  launched, calls, response, outcome, settled, ticked, bar,
                  stderr, packageSizes, csv, table>>

\* JavaScript undefined, where a string is expected.  A value that may be
\* null or absent is a sequence: <<>> for null, <<v>> for the value v.
Undefined == "undefined"

(***************************************************************************)
(* formatBytes (src/main.ts:87-92)                                         *)
(***************************************************************************)

\* the radix of the limb representation: Math.pow(1024, i), Math.log(1024)
Base == 1024

\* const sizes = ['Bytes', 'KB', 'MB', 'GB', 'TB']
sizes == <<"Bytes", "KB", "MB", "GB", "TB">>

\* sizes[i] with a 0-based index; outside the array JavaScript yields
\* undefined, which the template literal renders as "undefined"
SizesAt(i) == IF i + 1 \in DOMAIN sizes THEN sizes[i + 1] ELSE Undefined

RECURSIVE Pow2(_)
Pow2(n) == IF n <= 0 THEN 1 ELSE 2 * Pow2(n - 1)

RECURSIVE BitLen(_)
BitLen(n) == IF n = 0 THEN 0 ELSE 1 + BitLen(n \div 2)

\* the limbs of a small integer n >= 0 (0 is the single limb 0)
RECURSIVE ToLimbs(_)
ToLimbs(n) == IF n < Base THEN <<n>> ELSE <<n % Base>> \o ToLimbs(n \div Base)

\* bytes === 0
IsZero(l) == l = <<0>>

\* the i with 1024^i <= bytes < 1024^(i+1), for bytes >= 1
ExactIndex(l) == Len(l) - 1

\* bytes = 1024^Len(l) - d for some 1 <= d <= 1024: every limb above the
\* lowest is 1023
JustBelowPower(l) == \A j \in 2..Len(l) : l[j] = Base - 1

GapToPower(l) == Base - l[1]

(***************************************************************************)
(* Math.log returns an IEEE-754 double (53 significant bits).  The double  *)
(* nearest ln(1024^k) lies in the binade [2^(m-1), 2^m) with               *)
(* m = BitLen(floor(ln 1024^k)), so doubles there are 2^(m-53) apart.      *)
(* ln(1024^k - d) is ln(1024^k) - d/1024^k to first order, and it rounds   *)
(* to the same double as ln(1024^k) when d/1024^k is below half that       *)
(* spacing: d < 2^(10k + m - 54).  Dividing by Math.log(1024) then gives   *)
(* exactly k.  For k <= 4 no d >= 1 qualifies; for k = 5 (ln 2^50 = 34.65, *)
(* m = 6) d = 1, 2, 3 do, as they do with the fdlibm logarithm that V8's   *)
(* Math.log is built on.  ln 1024 = 6.931...                               *)
(***************************************************************************)
LnFloor(k) == (6931 * k) \div 1000

LogRoundsUp(l) ==
    LET k == Len(l)
        e == 10 * k + BitLen(LnFloor(k)) - 54
    IN  /\ JustBelowPower(l)
        /\ e >= 0
        /\ GapToPower(l) < Pow2(e)

\* const i = Math.floor(Math.log(bytes) / Math.log(1024)), for bytes >= 1
LogIndex(l) == IF LogRoundsUp(l) THEN Len(l) ELSE ExactIndex(l)

\* floor(m * (bytes mod 1024^i) / 1024^i)
RECURSIVE FracScaled(_, _, _)
FracScaled(l, i, m) ==
    IF i = 0 THEN 0
    ELSE (m * l[i] + FracScaled(l, i - 1, m)) \div Base

\* (bytes / Math.pow(1024, i)).toFixed(2), in hundredths.  The division by
\* a power of two is exact in doubles below 2^53 and toFixed rounds the
\* exact value to the nearest hundredth, the larger one on a tie.
\* Only i >= Len(l) - 1 arises.
ToFixed2(l, i) ==
    LET top == IF i = Len(l) - 1 THEN l[Len(l)] ELSE 0
        twice == 200 * top + FracScaled(l, i, 200)
    IN  (twice + 1) \div 2

\* the string `${x.toFixed(2)} ${sizes[i]}`: the integer part, the digits
\* after the decimal point and the unit label
Rendered(h, unit) ==
    [whole |-> h \div 100,
     decimals |-> <<(h % 100) \div 10, h % 10>>,
     unit |-> unit]

\* the string '0 Byte': no decimal point
ZeroByte == [whole |-> 0, decimals |-> <<>>, unit |-> "Byte"]

formatBytesL(l) ==
    IF IsZero(l) THEN ZeroByte
    ELSE LET i == LogIndex(l)
         IN  Rendered(ToFixed2(l, i), SizesAt(i))

\* formatBytes on a plain integer byte count
formatBytes(bytes) == formatBytesL(ToLimbs(bytes))


(***************************************************************************)
(* The environment: the command line, ~/.npmrc and the registry.           *)
(***************************************************************************)

\* the largest organization listed
MaxPackages == 3

PackagePool == <<"a", "b", "c", "d", "e">>

PackageNames == {PackagePool[i] : i \in 1..MaxPackages}

\* process.argv[2]: absent, or an organization name
ArgvValues == {"", "acme"}

\* ~/.npmrc: unreadable (readFileSync throws), or readable with the text
\* that follows "//registry.npmjs.org/:_authToken=" on its line, if any
NpmrcUnreadable == [readable |-> FALSE, authToken |-> <<>>]

NpmrcStates ==
    {NpmrcUnreadable}
    \cup {[readable |-> TRUE, authToken |-> t] :
            t \in {<<>>, <<"">>, <<" ">>, <<"npm_s3cr3t">>}}

\* String.prototype.trim on the texts above
Trim(s) == IF s = " " THEN "" ELSE s

\* a diagnostic line of console.error: what it says, about which package
\* (or "" for none), and the detail it carries
Line(kind, subject, detail) == <<kind, subject, detail>>

(***************************************************************************)
(* getNpmToken (src/main.ts:24-34): the token, or null                     *)
(***************************************************************************)
getNpmToken(rc) ==
    IF ~rc.readable
    THEN [value |-> <<>>,
          log |-> {Line("Failed to read npm token from ~/.npmrc", "", "")}]
    ELSE IF rc.authToken = <<>>
    THEN [value |-> <<>>, log |-> {}]
    ELSE [value |-> <<Trim(rc.authToken[1])>>, log |-> {}]

\* faulty variant of the check below: npmToken === null, which lets an
\* empty token through
NoTokenNullOnly(token) == token = <<>>

\* !npmToken (src/main.ts:42): null and '' are falsy
NoToken(token) == token = <<>> \/ token[1] = ""

(***************************************************************************)
(* The registry's answers.                                                 *)
(***************************************************************************)

\* What fetch.json yields for the listing request: it throws (an Error, or
\* some other value), or it returns the parsed JSON body, described by what
\* the code asks of it: its truthiness, its typeof, Array.isArray and
\* Object.keys.
Json(truthy, typeof, isArray, keys) ==
    [threw |-> "no", truthy |-> truthy, typeof |-> typeof,
     isArray |-> isArray, keys |-> keys]

ListingThrows(what) ==
    [threw |-> what, truthy |-> FALSE, typeof |-> Undefined,
     isArray |-> FALSE, keys |-> <<>>]

\* organizations of 0..MaxPackages packages; Object.keys order is the
\* order of the pool (the names are interchangeable)
OrgListings == {SubSeq(PackagePool, 1, n) : n \in 0..MaxPackages}

ListingResponses ==
    {ListingThrows("Error"), ListingThrows("other")}
    \cup {Json(FALSE, "object", FALSE, <<>>)}                   \* null
    \cup {Json(t, ty, FALSE, <<>>) :
            t \in BOOLEAN, ty \in {"number", "string", "boolean"}}
    \cup {Json(TRUE, "object", TRUE, k) : k \in {<<>>, <<"0", "1">>}} \* array
    \cup {Json(TRUE, "object", FALSE, k) : k \in OrgListings}

\* byte counts the registry reports
Sizes == {0, 5, 2048}

TheVersion == "1.0.0"

\* What fetch.json yields for a package document: it throws (an Error whose
\* message includes '404', another Error, or some other value), or it
\* returns a document with
\*   latest:      packageInfo['dist-tags']?.latest, a version or undefined
\*   hasVersions: whether the document has a versions object
\*   entries:     the versions that have an entry in it
\*   sizeType, unpackedSize: typeof and value of the entry's
\*                dist?.unpackedSize (0 when it is not a number)
\* One document stands for each path of getPackageSize: no latest tag, no
\* versions object, no entry for the tag (size undefined), a size that is
\* a string, and a numeric size.
Doc(latest, hasVersions, entries, sizeType, unpackedSize) ==
    [threw |-> "no", latest |-> latest, hasVersions |-> hasVersions,
     entries |-> entries, sizeType |-> sizeType,
     unpackedSize |-> unpackedSize]

PackageThrows(what) ==
    [threw |-> what, latest |-> Undefined, hasVersions |-> FALSE,
     entries |-> {}, sizeType |-> Undefined, unpackedSize |-> 0]

PackageResponses ==
    {PackageThrows(w) : w \in {"404", "Error", "other"}}
    \cup {Doc(Undefined, TRUE, {TheVersion}, "number", 5)}
    \cup {Doc(TheVersion, FALSE, {}, Undefined, 0)}
    \cup {Doc(TheVersion, TRUE, {}, Undefined, 0)}
    \cup {Doc(TheVersion, TRUE, {TheVersion}, "string", 0)}
    \cup {Doc(TheVersion, TRUE, {TheVersion}, "number", n) : n \in Sizes}

(***************************************************************************)
(* getPackageSize (src/main.ts:100-134): how the promise settles, the      *)
(* PackageSizeInfo or null it resolves with, and what it logs.             *)
(***************************************************************************)
Resolved(value, log) == [state |-> "fulfilled", value |-> value, log |-> log]

Rejected(log) == [state |-> "rejected", value |-> <<>>, log |-> log]

NotFound(name) == Line("Package not found (404)", name, "")

FetchFailed(name, detail) == Line("Failed to fetch size", name, detail)

\* faulty variant of the catch block below: it logs and rethrows
getPackageSizeCatchRethrows(name, thrown) ==
    IF thrown = "404" THEN Rejected({NotFound(name)})
    ELSE Rejected({FetchFailed(name, thrown)})

\* the catch block (src/main.ts:122-133)
getPackageSizeCatch(name, thrown) ==
    IF thrown = "404" THEN Resolved(<<>>, {NotFound(name)})
    ELSE IF thrown \in {"Error", "TypeError"}
    THEN Resolved(<<>>, {FetchFailed(name, thrown)})
    ELSE Resolved(<<>>, {FetchFailed(name, "An unknown error occurred.")})

PackageSizeInfo(name, size) ==
    [name |-> name, size |-> formatBytes(size), rawSize |-> size]

getPackageSize(name, resp) ==
    IF resp.threw # "no" THEN getPackageSizeCatch(name, resp.threw)
    ELSE IF resp.latest = Undefined THEN Resolved(<<>>, {})
    \* packageInfo.versions[latest] on a document without versions
    ELSE IF ~resp.hasVersions THEN getPackageSizeCatch(name, "TypeError")
    ELSE IF resp.latest \notin resp.entries \/ resp.sizeType # "number"
    THEN Resolved(<<>>, {})
    ELSE Resolved(<<PackageSizeInfo(name, resp.unpackedSize)>>, {})

(***************************************************************************)
(* listOrgPackages (src/main.ts:151-168)                                   *)
(***************************************************************************)
ListFailed(detail) == Line("Failed to list packages for org", "", detail)

\* faulty variant of listOrgPackages below: no Array.isArray test
listOrgPackagesNoArrayTest(resp) ==
    IF resp.threw = "Error" THEN Resolved(<<>>, {ListFailed("Error")})
    ELSE IF resp.threw # "no"
    THEN Resolved(<<>>, {ListFailed("An unknown error occurred.")})
    ELSE IF resp.truthy /\ resp.typeof = "object"
    THEN Resolved(resp.keys, {})
    ELSE Resolved(<<>>, {ListFailed("Unexpected response format")})

listOrgPackages(resp) ==
    IF resp.threw = "Error" THEN Resolved(<<>>, {ListFailed("Error")})
    ELSE IF resp.threw # "no"
    THEN Resolved(<<>>, {ListFailed("An unknown error occurred.")})
    ELSE IF resp.truthy /\ resp.typeof = "object" /\ ~resp.isArray
    THEN Resolved(resp.keys, {})
    ELSE Resolved(<<>>, {ListFailed("Unexpected response format")})

(***************************************************************************)
(* The fan-in: .finally, Promise.all, filter and sort                      *)
(* (src/main.ts:199-207)                                                   *)
(***************************************************************************)

\* faulty variant of the callback below: .then(r => r && bar.increment()),
\* which counts the successful calls only
barIncrementOnSuccess(value, o) ==
    IF o.state = "fulfilled" /\ o.value # <<>> THEN value + 1 ELSE value

\* .finally(() => bar.increment()): the bar's value after the callback ran
\* for a call that settled as o
barIncrement(value, o) == value + 1

\* how the promise made for packages[i] stands: the promise .finally
\* returns settles, once its callback has run, as the one it was called on
\* (<<>>: not settled yet)
Mapped(i) ==
    LET p == packages[i]
    IN  IF \E j \in 1..ticked : settled[j] = p
        THEN outcome[p]
        ELSE <<>>

\* Promise.all rejects as soon as one of its promises has rejected
PromiseAllRejected ==
    \E i \in 1..Len(packages) :
        Mapped(i) # <<>> /\ Mapped(i)[1].state = "rejected"

\* faulty variant of the condition below: Promise.race, which settles
\* with the first promise that does
PromiseRaceFulfilled ==
    \E i \in 1..Len(packages) :
        Mapped(i) # <<>> /\ Mapped(i)[1].state = "fulfilled"

\* and fulfills once every one has fulfilled
PromiseAllFulfilled ==
    \A i \in 1..Len(packages) :
        Mapped(i) # <<>> /\ Mapped(i)[1].state = "fulfilled"

\* faulty variant of the results below: the values in the order the
\* promises settled
PromiseAllResultsAsSettled ==
    [i \in 1..Len(packages) |->
        IF i <= ticked THEN outcome[settled[i]][1].value ELSE <<>>]

\* the array Promise.all fulfills with: one entry per promise, in the
\* order of the array it was given
PromiseAllResults ==
    [i \in 1..Len(packages) |->
        IF Mapped(i) = <<>> THEN <<>> ELSE Mapped(i)[1].value]

\* packageSizesResults.filter(sizeInfo => sizeInfo !== null)
RECURSIVE filterNotNull(_)
filterNotNull(results) ==
    IF results = <<>> THEN <<>>
    ELSE Head(results) \o filterNotNull(Tail(results))

\* faulty variant of the comparator below: ascending
compareFnAscending(a, b) == a.rawSize - b.rawSize

\* (a, b) => b.rawSize - a.rawSize
compareFn(a, b) == b.rawSize - a.rawSize

\* Array.prototype.sort is stable: an element goes before the first one
\* the comparator orders after it
RECURSIVE InsertSorted(_, _)
InsertSorted(s, x) ==
    IF s = <<>> THEN <<x>>
    ELSE IF compareFn(Head(s), x) > 0 THEN <<x>> \o s
    ELSE <<Head(s)>> \o InsertSorted(Tail(s), x)

RECURSIVE SortInto(_, _)
SortInto(acc, rest) ==
    IF rest = <<>> THEN acc
    ELSE SortInto(InsertSorted(acc, Head(rest)), Tail(rest))

sort(s) == SortInto(<<>>, s)

(***************************************************************************)
(* writeCSV (src/main.ts:177-181) and console.table (src/main.ts:211)      *)
(***************************************************************************)

\* the decimal digits of n >= 0, as `${pkg.rawSize}` writes them
RECURSIVE DecimalDigits(_)
DecimalDigits(n) ==
    IF n < 10 THEN <<n>> ELSE Append(DecimalDigits(n \div 10), n % 10)

\* a stretch of the file's text: comma-separated fields, and whether a
\* line break follows
Chunk(fields, newline) == [fields |-> fields, newline |-> newline]

\* 'Package Name,Size (Bytes),Size (Pretty)\n'
header == Chunk(<<"Package Name", "Size (Bytes)", "Size (Pretty)">>, TRUE)

\* `${pkg.name},${pkg.rawSize},${pkg.size}`
csvRow(pkg) == <<pkg.name, DecimalDigits(pkg.rawSize), pkg.size>>

\* data.map(...).join('\n'): a line break between rows, none after the last
joinRows(data) ==
    [i \in 1..Len(data) |-> Chunk(csvRow(data[i]), i < Len(data))]

\* faulty variant of writeCSV below: the header is left out
writeCSVNoHeader(data) == joinRows(data)

\* header + rows
writeCSV(data) == <<header>> \o joinRows(data)

\* packageSizes.map(({ name, size, rawSize }) => ({ name, rawSize, size }))
tableRows(data) ==
    [i \in 1..Len(data) |->
        [name |-> data[i].name, rawSize |-> data[i].rawSize,
         size |-> data[i].size]]

ProcessingError == Line("Error during processing", "", "")

(***************************************************************************)
(* The program.  pc is the position of the one thread of control:          *)
(*   "argv"     before the argument check          (src/main.ts:12)        *)
(*   "token"    before the token is resolved       (src/main.ts:41)        *)
(*   "main"     before main() is called            (src/main.ts:221)       *)
(*   "listing"  main awaits listOrgPackages        (src/main.ts:195)       *)
(*   "map"      inside packages.map                (src/main.ts:199)       *)
(*   "await"    main awaits Promise.all            (src/main.ts:200)       *)
(*   "returned" main has returned                                          *)
(*   "exited"   the process has exited                                     *)
(* Callbacks (an answer arriving, a .finally callback) run only while main *)
(* is suspended or has returned: JavaScript runs each to completion, and   *)
(* the reactions of a settled promise before the next event is handled.    *)
(***************************************************************************)

Init ==
    /\ argv \in ArgvValues
    /\ npmrc \in NpmrcStates
    /\ pc = "argv"
    /\ exitCode = <<>>
    /\ requests = 0
    /\ listing = <<>>
    /\ packages = <<>>
    /\ launched = 0
    /\ calls = [p \in PackageNames |-> 0]
    /\ response = [p \in PackageNames |-> <<>>]
    /\ outcome = [p \in PackageNames |-> <<>>]
    /\ settled = <<>>
    /\ ticked = 0
    /\ bar = [state |-> "none", total |-> 0, value |-> 0]
    /\ stderr = {}
    /\ packageSizes = <<>>
    /\ csv = <<>>
    /\ table = <<>>
    /\ fmtIn = <<0>>
    /\ fmtOut = <<>>

\* process.exit(code)
Exit(code) == pc' = "exited" /\ exitCode' = <<code>>

fetchVars == <<listing, packages, launched, calls, response, outcome,
               settled, ticked, bar>>

reportVars == <<packageSizes, csv, table>>

\* src/main.ts:12-16
CheckArgv ==
    /\ pc = "argv"
    /\ IF argv = ""
       THEN /\ stderr' = stderr \cup {Line("Please provide the organization name", "", "")}
            /\ Exit(1)
       ELSE /\ pc' = "token"
            /\ UNCHANGED <<stderr, exitCode>>
    /\ UNCHANGED <<argv, npmrc, requests, fetchVars, reportVars, fmtIn, fmtOut>>

\* src/main.ts:41-45
ResolveToken ==
    /\ pc = "token"
    /\ LET t == getNpmToken(npmrc)
       IN  IF NoToken(t.value)
           THEN /\ stderr' = stderr \cup t.log
                      \cup {Line("Failed to retrieve npm token from ~/.npmrc", "", "")}
                /\ Exit(1)
           ELSE /\ stderr' = stderr \cup t.log
                /\ pc' = "main"
                /\ UNCHANGED exitCode
    /\ UNCHANGED <<argv, npmrc, requests, fetchVars, reportVars, fmtIn, fmtOut>>

\* src/main.ts:221, 193-195, 151-154: main calls listOrgPackages, which
\* issues the listing request and suspends
CallMain ==
    /\ pc = "main"
    /\ requests' = requests + 1
    /\ pc' = "listing"
    /\ UNCHANGED <<argv, npmrc, exitCode, fetchVars, stderr, reportVars,
                   fmtIn, fmtOut>>

\* src/main.ts:154-167, 195-197: the listing answer arrives, listOrgPackages
\* settles and main goes on to start the bar (or to its catch block)
ListingArrives ==
    /\ pc = "listing"
    /\ \E resp \in ListingResponses :
         LET r == listOrgPackages(resp)
         IN  /\ listing' = <<resp>>
             /\ IF r.state = "rejected"
                THEN /\ stderr' = stderr \cup r.log \cup {ProcessingError}
                     /\ pc' = "returned"
                     /\ UNCHANGED <<packages, bar>>
                ELSE /\ stderr' = stderr \cup r.log
                     /\ packages' = r.value
                     /\ bar' = [state |-> "started", total |-> Len(r.value),
                                value |-> 0]
                     /\ pc' = "map"
    /\ UNCHANGED <<argv, npmrc, exitCode, requests, launched, calls, response,
                   outcome, settled, ticked, reportVars, fmtIn, fmtOut>>

\* src/main.ts:199, 100-104: one callback of packages.map: getPackageSize is
\* called for the next package, issues its request and suspends
MapCallback ==
    /\ pc = "map"
    /\ launched < Len(packages)
    /\ LET p == packages[launched + 1]
       IN  calls' = [calls EXCEPT ![p] = @ + 1]
    /\ requests' = requests + 1
    /\ launched' = launched + 1
    /\ UNCHANGED <<argv, npmrc, pc, exitCode, listing, packages, response,
                   outcome, settled, ticked, bar, stderr, reportVars,
                   fmtIn, fmtOut>>

\* src/main.ts:200: every package is mapped; main suspends on Promise.all
AwaitAll ==
    /\ pc = "map"
    /\ launched = Len(packages)
    /\ pc' = "await"
    /\ UNCHANGED <<argv, npmrc, exitCode, requests, fetchVars, stderr,
                   reportVars, fmtIn, fmtOut>>

\* src/main.ts:104-133: the answer for package p arrives and its
\* getPackageSize call runs to its end.  An answer is taken off the event
\* loop only when no promise reaction is waiting to run.
ResponseArrives(p) ==
    /\ pc \in {"await", "returned"}
    /\ ticked = Len(settled)
    /\ calls[p] > 0
    /\ response[p] = <<>>
    /\ \E resp \in PackageResponses :
         LET o == getPackageSize(p, resp)
         IN  /\ response' = [response EXCEPT ![p] = <<resp>>]
             /\ outcome' = [outcome EXCEPT ![p] = <<o>>]
             /\ stderr' = stderr \cup o.log
    /\ settled' = Append(settled, p)
    /\ UNCHANGED <<argv, npmrc, pc, exitCode, requests, listing, packages,
                   launched, calls, ticked, bar, reportVars, fmtIn, fmtOut>>

\* src/main.ts:199: the .finally callback of the call that has settled and
\* whose callback has not run
FinallyCallback ==
    /\ pc \in {"await", "returned"}
    /\ ticked < Len(settled)
    /\ bar' = [bar EXCEPT !.value =
                  barIncrement(@, outcome[settled[ticked + 1]][1])]
    /\ ticked' = ticked + 1
    /\ UNCHANGED <<argv, npmrc, pc, exitCode, requests, listing, packages,
                   launched, calls, response, outcome, settled, stderr,
                   reportVars, fmtIn, fmtOut>>

\* src/main.ts:200-218: Promise.all has settled and main resumes: it stops
\* the bar, filters, sorts and reports, or lands in its catch block (when
\* Promise.all rejected, or when fs.writeFileSync throws)
ResumeMain ==
    /\ pc = "await"
    /\ \/ /\ PromiseAllRejected
          /\ stderr' = stderr \cup {ProcessingError}
          /\ UNCHANGED <<bar, reportVars>>
       \/ /\ ~PromiseAllRejected
          /\ PromiseAllFulfilled
          /\ bar' = [bar EXCEPT !.state = "stopped"]
          /\ packageSizes' = sort(filterNotNull(PromiseAllResults))
          /\ \E written \in BOOLEAN :
               IF written
               THEN /\ csv' = <<writeCSV(packageSizes')>>
                    /\ table' = <<tableRows(packageSizes')>>
                    /\ UNCHANGED stderr
               ELSE /\ stderr' = stderr \cup {ProcessingError}
                    /\ UNCHANGED <<csv, table>>
    /\ pc' = "returned"
    /\ UNCHANGED <<argv, npmrc, exitCode, requests, listing, packages,
                   launched, calls, response, outcome, settled, ticked,
                   fmtIn, fmtOut>>

\* nothing is left to run: the process exits with code 0
ProcessExit ==
    /\ pc = "returned"
    /\ \A p \in PackageNames : calls[p] > 0 => response[p] # <<>>
    /\ ticked = Len(settled)
    /\ Exit(0)
    /\ UNCHANGED <<argv, npmrc, requests, fetchVars, stderr, reportVars,
                   fmtIn, fmtOut>>

Next ==
    \/ CheckArgv
    \/ ResolveToken
    \/ CallMain
    \/ ListingArrives
    \/ MapCallback
    \/ AwaitAll
    \/ \E p \in PackageNames : ResponseArrives(p)
    \/ FinallyCallback
    \/ ResumeMain
    \/ ProcessExit

Spec == Init /\ [][Next]_vars

(***************************************************************************)
(* The formatBytes harness: one byte count, formatted once.                *)
(***************************************************************************)

\* limb values tried: the ends of the digit range, the gaps 1..4 below a
\* power of 1024, and halves / eighths that make toFixed round and tie
LimbValues == {0, 1, 128, 512, 1020, 1021, 1022, 1023}

\* byte counts 0 <= b < 1024^Len(sizes) in canonical form
ByteInputs ==
    {l \in UNION {[1..n -> LimbValues] : n \in 1..Len(sizes)} :
        Len(l) > 1 => l[Len(l)] # 0}

PipelineIdle ==
    /\ argv = "" /\ npmrc = NpmrcUnreadable /\ pc = "idle" /\ exitCode = <<>>
    /\ requests = 0 /\ listing = <<>> /\ packages = <<>> /\ launched = 0
    /\ calls = [p \in PackageNames |-> 0]
    /\ response = [p \in PackageNames |-> <<>>]
    /\ outcome = [p \in PackageNames |-> <<>>]
    /\ settled = <<>> /\ ticked = 0
    /\ bar = [state |-> "none", total |-> 0, value |-> 0]
    /\ stderr = {} /\ packageSizes = <<>> /\ csv = <<>> /\ table = <<>>

InitFmt == PipelineIdle /\ fmtIn \in ByteInputs /\ fmtOut = <<>>

CallFormatBytes ==
    /\ fmtOut = <<>>
    /\ fmtOut' = <<formatBytesL(fmtIn)>>
    /\ UNCHANGED <<fmtIn, pipelineVars>>

NextFmt == CallFormatBytes

SpecFmt == InitFmt /\ [][NextFmt]_vars


(***************************************************************************)
(* Properties                                                              *)
(***************************************************************************)

Listed == {packages[i] : i \in 1..Len(packages)}

\* the first position of x in seq (0 if none)
IndexIn(seq, x) ==
    IF \E i \in 1..Len(seq) : seq[i] = x
    THEN CHOOSE i \in 1..Len(seq) :
            seq[i] = x /\ \A j \in 1..(i - 1) : seq[j] # x
    ELSE 0

Occurrences(seq, x) == Cardinality({i \in 1..Len(seq) : seq[i] = x})

\* main has got past the listing
Fetching == bar.state # "none"

\* main has returned, by its last statement or through its catch block
Returned == pc \in {"returned", "exited"}

\* the batch has settled: every promise handed to Promise.all has
BatchSettled ==
    /\ Fetching
    /\ \/ Returned
       \/ pc = "await" /\ \A i \in 1..Len(packages) : Mapped(i) # <<>>

\* a request for a package is out and its answer has not come
AnswerPending == \E p \in PackageNames : calls[p] > 0 /\ response[p] = <<>>

\* the package's metadata has a latest tag, a version entry for it and a
\* numeric unpackedSize
HasSize(resp) ==
    /\ resp.threw = "no"
    /\ resp.latest # Undefined
    /\ resp.hasVersions
    /\ resp.latest \in resp.entries
    /\ resp.sizeType = "number"

\* the package's fetch failed
FetchError(resp) == resp.threw # "no"

\* C1: when the batch has settled the progress bar has been incremented
\* exactly once for every listed package, whatever the outcomes and the
\* order they came in; and at no time has it been incremented more often
\* than calls have settled.
C1_OneTickPerPackage ==
    /\ bar.value <= Len(settled)
    /\ \A p \in PackageNames : Occurrences(settled, p) <= 1
    /\ BatchSettled =>
         /\ bar.value = Len(packages)
         /\ bar.total = Len(packages)
         /\ \A p \in Listed : Occurrences(settled, p) = 1

C1_Witness ==
    /\ pc = "returned"
    /\ Len(packages) = 3
    /\ bar.value = 3
    /\ settled = <<"c", "a", "b">>
    /\ response["a"][1].threw = "404"
    /\ response["b"][1].latest = Undefined /\ response["b"][1].threw = "no"
    /\ HasSize(response["c"][1])

\* C2: no mix of outcomes aborts the batch: getPackageSize never rejects,
\* main, while it awaits, waits for an answer or a callback or else goes
\* on to its reporting step, and the kept list holds exactly the
\* listed packages whose metadata has a size, each once with that size as
\* rawSize; the packages whose fetch failed or whose metadata lacks a field
\* are absent and their getPackageSize resolved with null.
C2_BatchNeverAborts ==
    /\ \A p \in PackageNames :
         outcome[p] # <<>> =>
           /\ outcome[p][1].state = "fulfilled"
           /\ (outcome[p][1].value = <<>>) <=> ~HasSize(response[p][1])
    /\ pc = "await" =>
         AnswerPending \/ ticked < Len(settled) \/ PromiseAllFulfilled
    /\ (Fetching /\ Returned) =>
         /\ bar.state = "stopped"
         /\ \A i \in 1..Len(packageSizes) : packageSizes[i].name \in Listed
         /\ \A p \in Listed :
              /\ response[p] # <<>>
              /\ IF HasSize(response[p][1])
                 THEN /\ Cardinality({i \in 1..Len(packageSizes) :
                                        packageSizes[i].name = p}) = 1
                      /\ \A i \in 1..Len(packageSizes) :
                           packageSizes[i].name = p =>
                             packageSizes[i].rawSize
                               = response[p][1].unpackedSize
                 ELSE \A i \in 1..Len(packageSizes) :
                           packageSizes[i].name # p

C2_Witness ==
    /\ pc = "returned"
    /\ bar.state = "stopped"
    /\ Len(packages) = 3
    /\ response["a"][1].threw = "Error"
    /\ response["b"][1].threw = "no" /\ ~response["b"][1].hasVersions
    /\ HasSize(response["c"][1])
    /\ Len(packageSizes) = 1
    /\ packageSizes[1].name = "c"

\* C3: the list handed to writeCSV and console.table is sorted by rawSize,
\* largest first, and is a rearrangement of the non-null fetch results.
C3_SortedDescending ==
    (Fetching /\ Returned) =>
      LET kept == filterNotNull(PromiseAllResults)
      IN  /\ \A i \in 1..(Len(packageSizes) - 1) :
                packageSizes[i].rawSize >= packageSizes[i + 1].rawSize
          /\ Len(packageSizes) = Len(kept)
          /\ \A i \in 1..Len(kept) : Occurrences(packageSizes, kept[i]) = 1
          /\ table # <<>> =>
               /\ Len(table[1]) = Len(packageSizes)
               /\ \A i \in 1..(Len(table[1]) - 1) :
                    table[1][i].rawSize >= table[1][i + 1].rawSize
               /\ \A i \in 1..Len(table[1]) :
                    table[1][i].name = packageSizes[i].name

C3_Witness ==
    /\ pc = "returned"
    /\ table # <<>>
    /\ Len(packageSizes) = 3
    /\ packageSizes[1].name = "b" /\ packageSizes[1].rawSize = 2048
    /\ packageSizes[2].name = "c" /\ packageSizes[2].rawSize = 5
    /\ packageSizes[3].name = "a" /\ packageSizes[3].rawSize = 0

\* ~/.npmrc is readable and holds a token for the registry
TokenResolvable(rc) ==
    rc.readable /\ rc.authToken \notin {<<>>, <<"">>, <<" ">>}

FatalStart == argv = "" \/ ~TokenResolvable(npmrc)

\* C4: the process exits with code 1 exactly when the organization argument
\* is missing or no token can be resolved, and such a run issues no
\* registry request; every other run goes on and exits with code 0, also
\* when the listing fails, when fetches fail and when main's catch block
\* is reached: once main has returned nothing is left to keep the process
\* alive.
C4_ExitCodes ==
    /\ FatalStart => requests = 0 /\ pc \in {"argv", "token", "exited"}
    /\ pc = "exited" <=> exitCode # <<>>
    /\ pc = "exited" => exitCode = (IF FatalStart THEN <<1>> ELSE <<0>>)
    /\ pc = "returned" => ~AnswerPending /\ ticked = Len(settled)

C4_Witness ==
    /\ exitCode = <<0>>
    /\ ProcessingError \in stderr
    /\ Len(packages) = 2
    /\ \A p \in Listed : FetchError(response[p][1])

\* a listing answer that is a JSON object: not null, not an array, not a
\* scalar
PlainObject(resp) ==
    resp.threw = "no" /\ resp.truthy /\ resp.typeof = "object" /\ ~resp.isArray

HeaderOnlyCsv ==
    <<[fields |-> <<"Package Name", "Size (Bytes)", "Size (Pretty)">>,
       newline |-> TRUE]>>

C6_EveryDropIsLogged ==
    \A p \in PackageNames :
      (outcome[p] # <<>> /\ outcome[p][1].value = <<>>) =>
        \E l \in stderr : l[2] = p

SettledBefore(p, q) == IndexIn(settled, p) < IndexIn(settled, q)

ListedBefore(p, q) == IndexIn(packages, p) < IndexIn(packages, q)

\* C7, as claimed: kept packages of equal rawSize appear in the report in
\* the order their fetches settled.
C7_TiesInSettleOrder ==
    (Fetching /\ Returned) =>
      \A i, j \in 1..Len(packageSizes) :
        (i < j /\ packageSizes[i].rawSize = packageSizes[j].rawSize) =>
          SettledBefore(packageSizes[i].name, packageSizes[j].name)

\* C7, amended: kept packages of equal rawSize appear in the report in the
\* order of the organization listing, whatever order their fetches settled
\* in.
C7_TiesInListingOrder ==
    (Fetching /\ Returned) =>
      \A i, j \in 1..Len(packageSizes) :
        (i < j /\ packageSizes[i].rawSize = packageSizes[j].rawSize) =>
          ListedBefore(packageSizes[i].name, packageSizes[j].name)

C7_Witness ==
    /\ pc = "returned"
    /\ Len(packageSizes) = 2
    /\ packageSizes[1].rawSize = packageSizes[2].rawSize
    /\ packageSizes[1].name = "a"
    /\ packageSizes[2].name = "b"
    /\ SettledBefore("b", "a")

\* the integer a digit string denotes
RECURSIVE ParseDecimal(_)
ParseDecimal(digits) ==
    IF digits = <<>> THEN 0
    ELSE 10 * ParseDecimal(SubSeq(digits, 1, Len(digits) - 1))
         + digits[Len(digits)]

\* the lines of a text: a chunk starts a new line when a line break
\* precedes it
LinesOf(text) ==
    {i \in 1..Len(text) : i = 1 \/ text[i - 1].newline}

\* C8: a written CSV has one line more than packages were kept: the fixed
\* header, then a line per kept package in the order of the console table,
\* with the name and the byte count of the table's entry at that place.
\* With a (2048 bytes), b (404) and c (0 bytes) it has three lines, a
\* before c.
C8_CsvMatchesTable ==
    csv # <<>> =>
      LET text == csv[1]
      IN  /\ table # <<>>
          /\ Cardinality(LinesOf(text)) = Len(packageSizes) + 1
          /\ Len(text) = Len(table[1]) + 1
          /\ text[1] = HeaderOnlyCsv[1]
          /\ \A i \in 1..Len(table[1]) :
               /\ text[i + 1].fields[1] = table[1][i].name
               /\ ParseDecimal(text[i + 1].fields[2]) = table[1][i].rawSize
               /\ text[i + 1].fields[3] = table[1][i].size
          /\ ( /\ packages = <<"a", "b", "c">>
               /\ HasSize(response["a"][1])
               /\ response["a"][1].unpackedSize = 2048
               /\ response["b"][1].threw = "404"
               /\ HasSize(response["c"][1])
               /\ response["c"][1].unpackedSize = 0 ) =>
               /\ Len(text) = 3
               /\ text[2].fields[1] = "a"
               /\ text[3].fields[1] = "c"

C8_Witness ==
    /\ csv # <<>>
    /\ packages = <<"a", "b", "c">>
    /\ HasSize(response["a"][1]) /\ response["a"][1].unpackedSize = 2048
    /\ response["b"][1].threw = "404"
    /\ HasSize(response["c"][1]) /\ response["c"][1].unpackedSize = 0
    /\ settled = <<"c", "b", "a">>
    /\ Len(csv[1]) = 3
    /\ csv[1][2].fields = <<"a", <<2, 0, 4, 8>>,
                            [whole |-> 2, decimals |-> <<0, 0>>, unit |-> "KB"]>>
    /\ csv[1][3].fields = <<"c", <<0>>,
                            [whole |-> 0, decimals |-> <<>>, unit |-> "Byte"]>>

\* b / 1024^i to two decimals, in hundredths, by exact arithmetic, for the
\* i with 1024^i <= b < 1024^(i+1)
ExactHundredths(l) ==
    LET i == Len(l) - 1
    IN  (200 * l[Len(l)] + FracScaled(l, i, 200) + 1) \div 2

\* C9: formatBytes(0) is "0 Byte", and for 1 <= b < 1024^5 formatBytes(b)
\* is b / 1024^i with exactly two decimals followed by the label at index
\* i of {Bytes, KB, MB, GB, TB}, for the i with 1024^i <= b < 1024^(i+1).
C9_FormatBytesRule ==
    fmtOut # <<>> =>
      IF fmtIn = <<0>>
      THEN fmtOut[1] = [whole |-> 0, decimals |-> <<>>, unit |-> "Byte"]
      ELSE LET h == ExactHundredths(fmtIn)
           IN  /\ fmtOut[1].unit = sizes[Len(fmtIn)]
               /\ Len(fmtOut[1].decimals) = 2
               /\ 100 * fmtOut[1].whole + 10 * fmtOut[1].decimals[1]
                    + fmtOut[1].decimals[2] = h

\* C10: once main awaits, exactly one getPackageSize call has been started
\* for every listed package and none for any other; no answer is handled
\* before every call is started; the bar is stopped, the CSV written and
\* the table printed only when every call has settled and its .finally
\* callback has run; and no call is started after that.
C10_FanOutThenFanIn ==
    /\ \A p \in PackageNames : calls[p] <= 1
    /\ pc = "map" => settled = <<>> /\ bar.state = "started"
    /\ (Fetching /\ pc \in {"await", "returned", "exited"}) =>
         /\ \A p \in PackageNames : calls[p] = (IF p \in Listed THEN 1 ELSE 0)
         /\ requests = 1 + Len(packages)
    /\ (bar.state = "stopped" \/ csv # <<>> \/ table # <<>> \/ (Fetching /\ Returned)) =>
         /\ \A p \in Listed : outcome[p] # <<>>
         /\ ticked = Len(packages)
         /\ Len(settled) = Len(packages)

C10_Witness ==
    /\ pc = "returned"
    /\ bar.state = "stopped"
    /\ Len(packages) = 3
    /\ table # <<>>
    /\ settled = <<"b", "c", "a">>
    /\ \A p \in Listed : calls[p] = 1

=============================================================================
